---- MODULE Spec2Model ----
(***************************************************************************)
(* Model of kbchatbox: the Keybase bridge (src/src/keybase.rs) with its    *)
(* two background threads, the two mpsc queues and Drop, and the display   *)
(* TextBuffer (src/src/textbuffer.rs).                                     *)
(***************************************************************************)
EXTENDS Integers, Sequences, FiniteSets, TLC

(***************************************************************************)
(* serde_json::Value.  A JSON string is a sequence of one-character        *)
(* strings so that trim() can be computed.  A JSON number carries the      *)
(* class that decides what str::parse::<i64>() and                         *)
(* NaiveDateTime::from_timestamp do with it:                               *)
(*   "int"     an integer inside chrono's representable date range         *)
(*   "bigint"  an integer that fits i64 but is outside that range          *)
(*   "hugeint" an integer that does not fit i64 (a u64 above i64::MAX)     *)
(*   "float"   a number printed with a fraction or an exponent             *)
(***************************************************************************)
Null == [t |-> "null"]

JStr(s) == [t |-> "str", s |-> s]

JNum(kind, n) == [t |-> "num", kind |-> kind, n |-> n]

JBool(b) == [t |-> "bool", b |-> b]

JArr(a) == [t |-> "arr", a |-> a]

JObj(o) == [t |-> "obj", o |-> o]

\* impl Index<&str> for Value: Null unless an object that has the key.
Index(v, k) == IF v.t = "obj" /\ k \in DOMAIN v.o THEN v.o[k] ELSE Null

\* Value::as_str / as_bool / as_array / is_array
IsStr(v) == v.t = "str"

IsBool(v) == v.t = "bool"

IsArray(v) == v.t = "arr"

S_chat == <<"c", "h", "a", "t">>

S_text == <<"t", "e", "x", "t">>

\* str::trim: strips leading and trailing whitespace.
IsSpace(c) == c \in {" ", "\t", "\n"}

RECURSIVE TrimStart(_)
TrimStart(s) ==
    IF s = <<>> THEN <<>>
    ELSE IF IsSpace(Head(s)) THEN TrimStart(Tail(s)) ELSE s

RECURSIVE TrimEnd(_)
TrimEnd(s) ==
    IF s = <<>> THEN <<>>
    ELSE IF IsSpace(s[Len(s)]) THEN TrimEnd(SubSeq(s, 1, Len(s) - 1)) ELSE s

Trim(s) == TrimEnd(TrimStart(s))

(***************************************************************************)
(* Results: Ok(val), Err(kind) with kind a KeybaseInternalError, or Panic  *)
(* (the call unwinds the calling thread instead of returning).             *)
(***************************************************************************)
Ok(val) == [tag |-> "Ok", val |-> val]

Err(kind) == [tag |-> "Err", err |-> kind]

Panic == [tag |-> "Panic"]

\* v.to_string().parse::<i64>(): succeeds exactly on an integer within i64.
ParseI64Ok(v) == v.t = "num" /\ v.kind \in {"int", "bigint"}

\* NaiveDateTime::from_timestamp(secs, 0) panics on out-of-range seconds.
FromTimestampPanics(v) == v.kind = "bigint"

ChatMsg(ts, channel, conv, text) ==
    [utc_timestamp |-> ts, channel |-> channel, conversation_id |-> conv, text |-> text]

parse_chat_msg(v) ==
    LET msg == Index(v, "msg")
        content == Index(msg, "content")
        sent_at == Index(msg, "sent_at")
        username == Index(Index(msg, "sender"), "username")
        body == Index(Index(content, "text"), "body")
        conv == Index(msg, "conversation_id")
    IN  IF Index(content, "type") = JStr(S_text)
        THEN IF ~ParseI64Ok(sent_at) THEN Err("ParseError")
             ELSE IF ~IsStr(username) THEN Err("ParseError")
             ELSE IF ~IsStr(body) THEN Err("ParseError")
             ELSE IF ~IsStr(conv) THEN Err("ParseError")
             ELSE IF FromTimestampPanics(sent_at) THEN Panic
             ELSE Ok(ChatMsg(sent_at.n, username.s, conv.s, Trim(body.s)))
        ELSE Err("ParseError")

create_chat_msg_reply(v) ==
    LET r == parse_chat_msg(v)
    IN  IF r.tag = "Ok" THEN Ok([kind |-> "ChatMsgReply", msg |-> r.val]) ELSE r

\* The for loop of create_chat_msg_list_reply over messages[i..]: an element
\* that fails extraction is skipped, a panic unwinds out of the loop.
RECURSIVE ChatMsgListLoop(_, _)
ChatMsgListLoop(messages, ret) ==
    IF messages = <<>> THEN Ok(ret)
    ELSE LET r == parse_chat_msg(Head(messages))
         IN  IF r.tag = "Panic" THEN Panic
             ELSE IF r.tag = "Ok" THEN ChatMsgListLoop(Tail(messages), Append(ret, r.val))
             ELSE ChatMsgListLoop(Tail(messages), ret)

create_chat_msg_list_reply(v) ==
    LET messages == Index(Index(v, "result"), "messages")
    IN  IF ~IsArray(messages) THEN Err("ParseError")
        ELSE LET r == ChatMsgListLoop(messages.a, <<>>)
             IN  IF r.tag = "Ok" THEN Ok([kind |-> "ChatMsgListReply", msgs |-> r.val]) ELSE r

RECURSIVE ChannelListLoopSkipsBad(_, _)
ChannelListLoopSkipsBad(conversations, ret) ==
    IF conversations = <<>> THEN Ok(ret)
    ELSE LET c == Head(conversations)
             name == Index(Index(c, "channel"), "name")
             id == Index(c, "id")
             unread == Index(c, "unread")
         IN  IF ~IsStr(name) \/ ~IsStr(id) \/ ~IsBool(unread)
             THEN ChannelListLoopSkipsBad(Tail(conversations), ret)
             ELSE ChannelListLoopSkipsBad(Tail(conversations),
                      Append(ret, [name |-> name.s, id |-> id.s, unread_msgs |-> unread.b]))

\* The for loop of create_channel_list_reply: the first bad element aborts.
RECURSIVE ChannelListLoop(_, _)
ChannelListLoop(conversations, ret) ==
    IF conversations = <<>> THEN Ok(ret)
    ELSE LET c == Head(conversations)
             name == Index(Index(c, "channel"), "name")
             id == Index(c, "id")
             unread == Index(c, "unread")
         IN  IF ~IsStr(name) THEN Err("ParseError")
             ELSE IF ~IsStr(id) THEN Err("ParseError")
             ELSE IF ~IsBool(unread) THEN Err("ParseError")
             ELSE ChannelListLoop(Tail(conversations),
                      Append(ret, [name |-> name.s, id |-> id.s, unread_msgs |-> unread.b]))

create_channel_list_reply(v) ==
    LET conversations == Index(Index(v, "result"), "conversations")
    IN  IF ~IsArray(conversations) THEN Err("InvalidMessageFormat")
        ELSE LET r == ChannelListLoop(conversations.a, <<>>)
             IN  IF r.tag = "Ok" THEN Ok([kind |-> "ChannelListReply", channels |-> r.val]) ELSE r

get_msg_type_batch_first(v) ==
    IF IsArray(Index(Index(v, "result"), "messages")) THEN "ChatMsgList"
    ELSE IF Index(v, "type") = JStr(S_chat)
            /\ Index(Index(Index(v, "msg"), "content"), "type") = JStr(S_text)
    THEN "ChatMsg"
    ELSE IF IsArray(Index(Index(v, "result"), "conversations")) THEN "ChannelList"
    ELSE "Unknown"

get_msg_type(v) ==
    IF Index(v, "type") = JStr(S_chat)
       /\ Index(Index(Index(v, "msg"), "content"), "type") = JStr(S_text)
    THEN "ChatMsg"
    ELSE IF IsArray(Index(Index(v, "result"), "messages")) THEN "ChatMsgList"
    ELSE IF IsArray(Index(Index(v, "result"), "conversations")) THEN "ChannelList"
    ELSE "Unknown"

to_keybase_msg(v) ==
    LET ty == get_msg_type(v)
    IN  IF ty = "ChatMsg" THEN create_chat_msg_reply(v)
        ELSE IF ty = "ChatMsgList" THEN create_chat_msg_list_reply(v)
        ELSE IF ty = "ChannelList" THEN create_channel_list_reply(v)
        ELSE Err("UnknownMessage")

(***************************************************************************)
(* Values the two child processes can put on their output streams, and the *)
(* requests the caller builds.                                              *)
(***************************************************************************)
S_C1 == <<"C", "1">>

S_bob == <<"b", "o", "b">>

S_hi == <<" ", "h", "i", "\n">>

ChatEvent(sent_at, username, body, conv) ==
    JObj([type |-> JStr(S_chat),
          msg |-> JObj([sent_at |-> sent_at,
                        sender |-> JObj([username |-> username]),
                        content |-> JObj([type |-> JStr(S_text),
                                          text |-> JObj([body |-> body])]),
                        conversation_id |-> conv])])

ChatOkValue == ChatEvent(JNum("int", 1), JStr(S_bob), JStr(S_hi), JStr(S_C1))

\* sent_at fits i64 but lies outside chrono's date range.
ChatBigTsValue == ChatEvent(JNum("bigint", 2), JStr(S_bob), JStr(S_hi), JStr(S_C1))

\* sender.username is missing.
ChatNoUserValue == ChatEvent(JNum("int", 1), Null, JStr(S_hi), JStr(S_C1))

UnknownValue == JObj([foo |-> JStr(<<"b", "a", "r">>)])

Conversation(name, id, unread) ==
    JObj([channel |-> JObj([name |-> name]), id |-> id, unread |-> unread])

ChannelListValue ==
    JObj([result |-> JObj([conversations |->
        JArr(<<Conversation(JStr(S_bob), JStr(S_C1), JBool(TRUE)),
               Conversation(JStr(<<"a">>), JStr(<<"C", "2">>), JBool(FALSE))>>)])])

(***************************************************************************)
(* What BufRead::read_line hands back: the text of a line, the empty text   *)
(* at the end of a closed stream (read_line returns Ok(0) and leaves the    *)
(* buffer empty), or an io::Error.  The texts are named; JsonText gives the *)
(* value serde_json parses a text to, a text outside its domain is a        *)
(* syntax error.                                                            *)
(***************************************************************************)
\* A chat event whose username and conversation_id are the empty string.
ChatEmptyIdsValue == ChatEvent(JNum("int", 1), JStr(<<>>), JStr(S_hi), JStr(<<>>))

\* A read reply: one complete message, one without username, one whose
\* username and conversation_id are the empty string.
BatchValue ==
    JObj([result |-> JObj([messages |-> JArr(<<
        JObj([msg |-> Index(ChatOkValue, "msg")]),
        JObj([msg |-> Index(ChatNoUserValue, "msg")]),
        JObj([msg |-> Index(ChatEmptyIdsValue, "msg")])>>)])])

JsonText ==
    [chat_ok |-> ChatOkValue,
     chat_big_ts |-> ChatBigTsValue,
     chat_no_user |-> ChatNoUserValue,
     unknown |-> UnknownValue,
     channel_list |-> ChannelListValue,
     chat_empty_ids |-> ChatEmptyIdsValue,
     batch |-> BatchValue]

GarbageLine == "not json"

EofLine == ""

IoErrLine == "io::Error"

\* serde_json::from_str: the empty text and garbage are syntax errors.
parse_json(json_str) ==
    IF json_str \in DOMAIN JsonText THEN Ok(JsonText[json_str]) ELSE Err("ParseError")

\* read_line(..)?, parse_json(..)?, to_keybase_msg(..)? on the line read.
get_next_message(line) ==
    IF line = IoErrLine THEN Err("IoError")
    ELSE LET parsed == parse_json(line)
         IN  IF parsed.tag # "Ok" THEN parsed ELSE to_keybase_msg(parsed.val)

\* The listener child emits chat events and text that is not JSON; the API
\* child answers with a channel list or with JSON of a shape the classifier
\* does not know (its error replies).
ListenerLines == {"chat_ok", GarbageLine, "chat_big_ts", EofLine, IoErrLine}

ApiLines == {"channel_list", "unknown", "chat_big_ts", EofLine, IoErrLine}

create_list_channels_req == JObj([method |-> JStr(<<"l", "i", "s", "t">>)])

create_msg_req(conversation_id, text) ==
    JObj([method |-> JStr(<<"s", "e", "n", "d">>),
          params |-> JObj([options |-> JObj([conversation_id |-> JStr(conversation_id),
                                             message |-> JObj([body |-> JStr(text)])])])])

\* json!({}), the request Drop sends to wake the API thread.
empty_msg == JObj(<<>>)

\* A closed stream stays closed: after an end-of-stream read every later
\* read_line returns end-of-stream again.
StreamAllows(lines, line) ==
    lines # <<>> /\ lines[Len(lines)] = EofLine => line = EofLine

\* Bounds.
MaxListenerLines == 3

MaxRequests == 1

\* Longest result.messages and result.conversations arrays classified.
MaxBatch == 3

MaxConversations == 2

\* Largest width and height of a TextBuffer, and the appends between clears.
TbMaxX == 2

TbMaxY == 2

MaxAppends == 3

NoMsg == [kind |-> "None"]

NoReq == [id |-> 0, msg |-> Null]

\* A thread that has left its loop: its closure returned or it panicked.
Terminated(pc) == pc \in {"done", "panicked"}

(***************************************************************************)
(* State.                                                                   *)
(***************************************************************************)
VARIABLES
    is_running,        \* Keybase.is_running (Arc<AtomicBool>)
    incoming,          \* everything accepted by incoming_tx.send, in order,
                       \* each entry tagged with the thread that sent it
    incoming_rx_alive, \* Keybase.incoming_rx not yet dropped
    outgoing,          \* the outgoing mpsc queue (outgoing_tx -> outgoing_rx)
    outgoing_rx_alive, \* outgoing_rx (owned by the API thread's closure) alive
    outSent,           \* every request the outgoing queue accepted, in order
    lstPc,             \* position of the listener thread
    lstMsg,            \* keyb_msg held by the listener thread
    lstLines,          \* lines the listener thread has read so far
    notifications,     \* notify-send invocations, in order
    apiPc,             \* position of the API thread
    apiReq,            \* new_msg held by handle_next_call
    apiMsg,            \* keyb_msg held by handle_next_call
    apiStdin,          \* requests written to the API child's stdin, in order
    apiLines,          \* lines the API thread has read so far
    dropPc,            \* position of Drop::drop on the caller's thread
    nSend,             \* number of caller send attempts (bounds the model)
    clsIn,             \* the Value handed to to_keybase_msg
    clsOut,            \* what to_keybase_msg returned for it
    xsize,             \* TextBuffer.xsize
    ysize,             \* TextBuffer.ysize
    raw_lines,         \* TextBuffer.raw_lines, oldest first
    tbAppended,        \* the lines appended since the last clear, in order
    tbOut,             \* what get_newest returned for the stored lines
    atClose            \* history: how far the two threads were when Drop
                       \* swapped is_running (kept by DropSwapMarked)

vars == <<is_running, incoming, incoming_rx_alive, outgoing, outgoing_rx_alive,
          outSent, lstPc, lstMsg, lstLines, notifications, apiPc, apiReq,
          apiMsg, apiStdin, apiLines, dropPc, nSend,
          clsIn, clsOut, xsize, ysize, raw_lines, tbAppended, tbOut, atClose>>

bridgeVars == <<is_running, incoming, incoming_rx_alive, outgoing,
                outgoing_rx_alive, outSent, lstPc, lstMsg, lstLines,
                notifications, apiPc, apiReq, apiMsg, apiStdin, apiLines,
                dropPc, nSend, atClose>>

clsVars == <<clsIn, clsOut>>

tbVars == <<xsize, ysize, raw_lines, tbAppended, tbOut>>

lstVars == <<lstPc, lstMsg, lstLines, notifications>>

apiVars == <<apiPc, apiReq, apiMsg, apiStdin, apiLines>>

outVars == <<outgoing, outgoing_rx_alive, outSent>>

\* No call of to_keybase_msg outside the two threads is in progress.
NoResult == [tag |-> "None"]

ClsIdle == clsIn = Null /\ clsOut = NoResult

\* TextBuffer::new(max_x_chars, max_y_chars): no line stored.
TextBufferNew(max_x_chars, max_y_chars) ==
    /\ xsize = max_x_chars
    /\ ysize = max_y_chars
    /\ raw_lines = <<>>
    /\ tbAppended = <<>>
    /\ tbOut = NoResult

\* Keybase::new: both queues empty, flag true, both threads entering their loop.
\* Lines the listener has read and replies it has enqueued, requests the
\* API thread has dequeued (while outgoing_rx exists) and written.
Progress ==
    [lines |-> Len(lstLines),
     enqueued |-> Cardinality({k \in DOMAIN incoming : incoming[k].src = "listener"}),
     dequeued |-> Len(outSent) - Len(outgoing),
     written |-> Len(apiStdin)]

BridgeInit ==
    /\ is_running = TRUE
    /\ incoming = <<>>
    /\ incoming_rx_alive = TRUE
    /\ outgoing = <<>>
    /\ outgoing_rx_alive = TRUE
    /\ outSent = <<>>
    /\ lstPc = "check"
    /\ lstMsg = NoMsg
    /\ lstLines = <<>>
    /\ notifications = <<>>
    /\ apiPc = "check"
    /\ apiReq = NoReq
    /\ apiMsg = NoMsg
    /\ apiStdin = <<>>
    /\ apiLines = <<>>
    /\ dropPc = "open"
    /\ nSend = 0
    /\ atClose = Progress

\* The bridge on its own: the classifier is only called by the two threads
\* and the display buffer is left as constructed.
Init == BridgeInit /\ ClsIdle /\ TextBufferNew(1, 1)

\* The requests the caller sends: main() asks for the channel list first,
\* what the user types afterwards goes out as send requests.
RequestMsgs ==
    IF nSend = 0 THEN {create_list_channels_req}
    ELSE {create_msg_req(S_C1, <<"h", "\n", "i">>)}

(***************************************************************************)
(* Listener thread (listen_new_kb_msgs).                                    *)
(***************************************************************************)
\* if is_running.load(SeqCst) == false { break; }
LstCheck ==
    /\ lstPc = "check"
    /\ lstPc' = IF is_running THEN "read" ELSE "done"
    /\ UNCHANGED <<is_running, incoming, incoming_rx_alive, outVars, lstMsg,
                   lstLines, notifications, apiVars, dropPc, nSend>>
    /\ UNCHANGED <<clsVars, tbVars, atClose>>

\* Variant: IoError falls into the `Err(_) => continue` arm.
LstFatalIoIgnored(r) == r.tag = "Panic"

\* Err(KeybaseInternalError::IoError) => panic!(..); a panic raised inside
\* get_next_message unwinds the thread as well.  thread::spawn confines the
\* unwinding to the listener thread.
LstFatal(r) == r.tag = "Panic" \/ (r.tag = "Err" /\ r.err = "IoError")

\* match Keybase::get_next_message(..): the line the child emitted next.
LstRead(line) ==
    /\ lstPc = "read"
    /\ Len(lstLines) < MaxListenerLines
    /\ StreamAllows(lstLines, line)
    /\ lstLines' = Append(lstLines, line)
    /\ LET r == get_next_message(line)
       IN  IF LstFatal(r)
           THEN lstPc' = "panicked" /\ lstMsg' = lstMsg
           ELSE IF r.tag = "Err"
           THEN lstPc' = "check" /\ lstMsg' = lstMsg
           ELSE /\ lstMsg' = r.val
                /\ lstPc' = IF r.val.kind = "ChatMsgReply" THEN "notify" ELSE "send"
    /\ UNCHANGED <<is_running, incoming, incoming_rx_alive, outVars,
                   notifications, apiVars, dropPc, nSend>>
    /\ UNCHANGED <<clsVars, tbVars, atClose>>

\* Variant: a notification that could not be delivered makes the loop
\* `continue` without sending the reply.
LstNotifyFailureSkipsSend(delivered) ==
    /\ lstPc = "notify"
    /\ delivered \in BOOLEAN
    /\ notifications' = Append(notifications, lstMsg.msg.channel)
    /\ lstPc' = IF delivered THEN "send" ELSE "check"
    /\ UNCHANGED <<is_running, incoming, incoming_rx_alive, outVars, lstMsg,
                   lstLines, apiVars, dropPc, nSend>>
    /\ UNCHANGED <<clsVars, tbVars, atClose>>

\* notification::send_desktop_notification("Keybase: New message from <channel>")
\* delivered says whether notify-send ran and exited with success; the
\* function prints the outcome and returns (), nothing of it is kept.
LstNotify(delivered) ==
    /\ lstPc = "notify"
    /\ delivered \in BOOLEAN
    /\ notifications' = Append(notifications, lstMsg.msg.channel)
    /\ lstPc' = "send"
    /\ UNCHANGED <<is_running, incoming, incoming_rx_alive, outVars, lstMsg,
                   lstLines, apiVars, dropPc, nSend>>
    /\ UNCHANGED <<clsVars, tbVars, atClose>>

\* Variant: the listener holds its reply back while the API thread is inside
\* handle_next_call.
LstSendWaitsForApi ==
    /\ lstPc = "send"
    /\ apiPc \notin {"write", "read", "send"}
    /\ incoming' = IF incoming_rx_alive
                   THEN Append(incoming, [src |-> "listener", req |-> 0,
                                          line |-> Len(lstLines), reply |-> lstMsg])
                   ELSE incoming
    /\ lstMsg' = NoMsg
    /\ lstPc' = "check"
    /\ UNCHANGED <<is_running, incoming_rx_alive, outVars, lstLines,
                   notifications, apiVars, dropPc, nSend>>
    /\ UNCHANGED <<clsVars, tbVars, atClose>>

\* Variant: tx.send sits in the `_` arm of the match, a ChatMsgReply is
\* only notified.
LstSendOnlyOtherTypes ==
    /\ lstPc = "send"
    /\ incoming' = IF incoming_rx_alive /\ lstMsg.kind # "ChatMsgReply"
                   THEN Append(incoming, [src |-> "listener", req |-> 0,
                                          line |-> Len(lstLines), reply |-> lstMsg])
                   ELSE incoming
    /\ lstMsg' = NoMsg
    /\ lstPc' = "check"
    /\ UNCHANGED <<is_running, incoming_rx_alive, outVars, lstLines,
                   notifications, apiVars, dropPc, nSend>>
    /\ UNCHANGED <<clsVars, tbVars, atClose>>

\* match tx.send(keyb_msg): an error (receiver dropped) is printed and ignored.
LstSend ==
    /\ lstPc = "send"
    /\ incoming' = IF incoming_rx_alive
                   THEN Append(incoming, [src |-> "listener", req |-> 0,
                                          line |-> Len(lstLines), reply |-> lstMsg])
                   ELSE incoming
    /\ lstMsg' = NoMsg
    /\ lstPc' = "check"
    /\ UNCHANGED <<is_running, incoming_rx_alive, outVars, lstLines,
                   notifications, apiVars, dropPc, nSend>>
    /\ UNCHANGED <<clsVars, tbVars, atClose>>

(***************************************************************************)
(* API thread (start_api_loop, handle_next_call).                           *)
(***************************************************************************)
\* The thread's closure ends (normally or by unwinding): outgoing_rx is
\* dropped with whatever is still queued, later sends fail.
ApiThreadEnds(pc) ==
    /\ apiPc' = pc
    /\ outgoing_rx_alive' = FALSE
    /\ outgoing' = <<>>

\* if is_running.load(SeqCst) == false { break; }
ApiCheck ==
    /\ apiPc = "check"
    /\ IF is_running
       THEN apiPc' = "recv" /\ UNCHANGED <<outgoing, outgoing_rx_alive>>
       ELSE ApiThreadEnds("done")
    /\ UNCHANGED <<is_running, incoming, incoming_rx_alive, outSent, lstVars,
                   apiReq, apiMsg, apiStdin, apiLines, dropPc, nSend>>
    /\ UNCHANGED <<clsVars, tbVars, atClose>>

\* let new_msg = rx.recv()?;  blocks while the queue is empty.
ApiRecv ==
    /\ apiPc = "recv"
    /\ outgoing # <<>>
    /\ apiReq' = Head(outgoing)
    /\ outgoing' = Tail(outgoing)
    /\ apiPc' = "write"
    /\ UNCHANGED <<is_running, incoming, incoming_rx_alive, outgoing_rx_alive,
                   outSent, lstVars, apiMsg, apiStdin, apiLines, dropPc, nSend>>
    /\ UNCHANGED <<clsVars, tbVars, atClose>>

\* serde_json::to_string(&new_msg.msg)?; stdin.write(json_str.as_bytes())?;
\* written says whether the write to the child's stdin succeeded.
ApiWrite(written) ==
    /\ apiPc = "write"
    /\ IF written
       THEN /\ apiStdin' = Append(apiStdin, apiReq)
            /\ apiPc' = "read"
            /\ UNCHANGED <<outgoing, outgoing_rx_alive>>
       ELSE /\ ApiThreadEnds("panicked")
            /\ UNCHANGED apiStdin
    /\ UNCHANGED <<is_running, incoming, incoming_rx_alive, outSent, lstVars,
                   apiReq, apiMsg, apiLines, dropPc, nSend>>
    /\ UNCHANGED <<clsVars, tbVars, atClose>>

\* Variant: `continue` goes straight to rx.recv(), past the test of is_running.
ApiReplyFailedSkipsCheck == apiPc' = "recv" /\ apiReq' = NoReq

\* Variant: a reply that fails to parse makes the thread read another line
\* for the same request.
ApiReplyFailedReadAgain == apiPc' = "read" /\ UNCHANGED apiReq

\* Variant: a reply that fails to parse makes the thread write the request
\* again.
ApiReplyFailedWriteAgain == apiPc' = "write" /\ UNCHANGED apiReq

\* `Err(_) => continue` in start_api_loop: the request is dropped with its
\* reply and the loop goes to its next iteration.
ApiReplyFailed == apiPc' = "check" /\ apiReq' = NoReq

\* stdout.read_line(&mut s)?; parse_json(&s)?; to_keybase_msg(&parsed)?;
ApiRead(line) ==
    /\ apiPc = "read"
    /\ StreamAllows(apiLines, line)
    /\ apiLines' = Append(apiLines, line)
    /\ LET r == get_next_message(line)
       IN  IF r.tag = "Panic" \/ (r.tag = "Err" /\ r.err = "IoError")
           THEN ApiThreadEnds("panicked") /\ UNCHANGED <<apiMsg, apiReq>>
           ELSE IF r.tag = "Err"
           THEN /\ ApiReplyFailed
                /\ UNCHANGED <<apiMsg, outgoing, outgoing_rx_alive>>
           ELSE /\ apiMsg' = r.val
                /\ apiPc' = "send"
                /\ UNCHANGED <<apiReq, outgoing, outgoing_rx_alive>>
    /\ UNCHANGED <<is_running, incoming, incoming_rx_alive, outSent, lstVars,
                   apiStdin, dropPc, nSend>>
    /\ UNCHANGED <<clsVars, tbVars, atClose>>

\* tx.send(keyb_msg)?; Ok(())   A SendError becomes IoError, which panics.
ApiSend ==
    /\ apiPc = "send"
    /\ IF incoming_rx_alive
       THEN /\ incoming' = Append(incoming,
                   [src |-> "api", req |-> apiReq.id, line |-> Len(apiLines), reply |-> apiMsg])
            /\ apiPc' = "check"
            /\ UNCHANGED <<outgoing, outgoing_rx_alive>>
       ELSE /\ ApiThreadEnds("panicked")
            /\ UNCHANGED incoming
    /\ apiMsg' = NoMsg
    /\ apiReq' = NoReq
    /\ UNCHANGED <<is_running, incoming_rx_alive, outSent, lstVars, apiStdin,
                   apiLines, dropPc, nSend>>
    /\ UNCHANGED <<clsVars, tbVars, atClose>>

(***************************************************************************)
(* The caller: requests through a clone of outgoing_tx, and Drop.           *)
(***************************************************************************)
\* Sender::send on the outgoing queue: fails once outgoing_rx is dropped.
OutgoingSend(msg) ==
    /\ outgoing_rx_alive
    /\ outgoing' = Append(outgoing, [id |-> Len(outSent) + 1, msg |-> msg])
    /\ outSent' = Append(outSent, [id |-> Len(outSent) + 1, msg |-> msg])
    /\ UNCHANGED outgoing_rx_alive

\* safe_send(&sender, req): a send error is printed and ignored.
CallerSend(msg) ==
    /\ nSend < MaxRequests
    /\ nSend' = nSend + 1
    /\ IF outgoing_rx_alive THEN OutgoingSend(msg) ELSE UNCHANGED outVars
    /\ UNCHANGED <<is_running, incoming, incoming_rx_alive, lstVars, apiVars, dropPc>>
    /\ UNCHANGED <<clsVars, tbVars, atClose>>

\* self.is_running.swap(false, SeqCst);
DropSwap ==
    /\ dropPc = "open"
    /\ is_running' = FALSE
    /\ dropPc' = "api"
    /\ UNCHANGED <<incoming, incoming_rx_alive, outVars, lstVars, apiVars, nSend>>
    /\ UNCHANGED <<clsVars, tbVars, atClose>>

\* The same step with its place in the history kept: atClose records how far
\* the two threads are at the moment of the swap.
DropSwapMarked ==
    /\ dropPc = "open"
    /\ is_running' = FALSE
    /\ dropPc' = "api"
    /\ atClose' = Progress
    /\ UNCHANGED <<incoming, incoming_rx_alive, outVars, lstVars, apiVars, nSend>>
    /\ UNCHANGED <<clsVars, tbVars>>

\* match self.outgoing_tx.send(empty_msg): Ok goes on to join, Err skips it.
DropSendSentinel ==
    /\ dropPc = "api"
    /\ IF outgoing_rx_alive
       THEN OutgoingSend(empty_msg) /\ dropPc' = "join"
       ELSE UNCHANGED outVars /\ dropPc' = "listener"
    /\ UNCHANGED <<is_running, incoming, incoming_rx_alive, lstVars, apiVars, nSend>>
    /\ UNCHANGED <<clsVars, tbVars, atClose>>

\* Variant: the API thread is not joined either.
DropJoinNoWait ==
    /\ dropPc = "join"
    /\ dropPc' = "listener"
    /\ UNCHANGED <<is_running, incoming, incoming_rx_alive, outVars, lstVars,
                   apiVars, nSend>>
    /\ UNCHANGED <<clsVars, tbVars, atClose>>

\* handle.join().expect("API thread join failed."): waits for the thread to
\* finish; join returns Err when the thread panicked and expect then panics.
DropJoin ==
    /\ dropPc = "join"
    /\ Terminated(apiPc)
    /\ dropPc' = IF apiPc = "done" THEN "listener" ELSE "panicked"
    /\ UNCHANGED <<is_running, incoming, incoming_rx_alive, outVars, lstVars,
                   apiVars, nSend>>
    /\ UNCHANGED <<clsVars, tbVars, atClose>>

\* Variant: handle.join() on the listener thread is not commented out.
DropListenerJoined ==
    /\ dropPc = "listener"
    /\ Terminated(lstPc)
    /\ dropPc' = IF lstPc = "done" THEN "returned" ELSE "panicked"
    /\ UNCHANGED <<is_running, incoming, incoming_rx_alive, outVars, lstVars,
                   apiVars, nSend>>
    /\ UNCHANGED <<clsVars, tbVars, atClose>>

\* if let Some(_handle) = self.listener_thread.take(): the join is commented
\* out, drop returns without looking at the listener thread.
DropListener ==
    /\ dropPc = "listener"
    /\ dropPc' = "returned"
    /\ UNCHANGED <<is_running, incoming, incoming_rx_alive, outVars, lstVars,
                   apiVars, nSend>>
    /\ UNCHANGED <<clsVars, tbVars, atClose>>

\* After drop() the fields of Keybase are dropped, incoming_rx among them
\* (also when drop() unwinds).
DropFields ==
    /\ dropPc \in {"returned", "panicked"}
    /\ incoming_rx_alive
    /\ incoming_rx_alive' = FALSE
    /\ UNCHANGED <<is_running, incoming, outVars, lstVars, apiVars, dropPc, nSend>>
    /\ UNCHANGED <<clsVars, tbVars, atClose>>

Next ==
    \/ LstCheck
    \/ \E line \in ListenerLines : LstRead(line)
    \/ \E delivered \in BOOLEAN : LstNotify(delivered)
    \/ LstSend
    \/ ApiCheck
    \/ ApiRecv
    \/ \E written \in BOOLEAN : ApiWrite(written)
    \/ \E line \in ApiLines : ApiRead(line)
    \/ ApiSend
    \/ \E msg \in RequestMsgs : CallerSend(msg)
    \/ DropSwap
    \/ DropSendSentinel
    \/ DropJoin
    \/ DropListener
    \/ DropFields

Spec == Init /\ [][Next]_vars

(***************************************************************************)
(* The bridge with the moment of the swap of is_running kept in atClose.   *)
(***************************************************************************)
OvershootNext ==
    \/ LstCheck
    \/ \E line \in ListenerLines : LstRead(line)
    \/ \E delivered \in BOOLEAN : LstNotify(delivered)
    \/ LstSend
    \/ ApiCheck
    \/ ApiRecv
    \/ \E written \in BOOLEAN : ApiWrite(written)
    \/ \E line \in ApiLines : ApiRead(line)
    \/ ApiSend
    \/ \E msg \in RequestMsgs : CallerSend(msg)
    \/ DropSwapMarked
    \/ DropSendSentinel
    \/ DropJoin
    \/ DropListener
    \/ DropFields

OvershootSpec == Init /\ [][OvershootNext]_vars

(***************************************************************************)
(* The bytes on the API child's stdin.  serde_json::to_string renders a    *)
(* Value as compact JSON; handle_next_call writes exactly those bytes.     *)
(***************************************************************************)
\* The keys of the requests, in the order the Map serializes them.
KeyOrder == <<"body", "conversation_id", "message", "method", "options", "params">>

KeyChars ==
    [body |-> <<"b", "o", "d", "y">>,
     conversation_id |-> <<"c", "o", "n", "v", "e", "r", "s", "a", "t", "i", "o", "n",
                           "_", "i", "d">>,
     message |-> <<"m", "e", "s", "s", "a", "g", "e">>,
     method |-> <<"m", "e", "t", "h", "o", "d">>,
     options |-> <<"o", "p", "t", "i", "o", "n", "s">>,
     params |-> <<"p", "a", "r", "a", "m", "s">>]

\* A char inside a JSON string: quote, backslash and control chars are
\* escaped.
EscapeChar(c) ==
    IF c = "\n" THEN <<"\\", "n">>
    ELSE IF c = "\"" THEN <<"\\", "\"">>
    ELSE IF c = "\\" THEN <<"\\", "\\">>
    ELSE <<c>>

RECURSIVE Escape(_)
Escape(str) == IF str = <<>> THEN <<>> ELSE EscapeChar(Head(str)) \o Escape(Tail(str))

Quoted(str) == <<"\"">> \o Escape(str) \o <<"\"">>

\* serde_json::to_string(&value) for the Values requests are made of.
RECURSIVE to_string(_)
RECURSIVE MembersToString(_, _, _)
MembersToString(o, keys, first) ==
    IF keys = <<>> THEN <<>>
    ELSE IF Head(keys) \notin DOMAIN o THEN MembersToString(o, Tail(keys), first)
    ELSE (IF first THEN <<>> ELSE <<",">>)
         \o Quoted(KeyChars[Head(keys)]) \o <<":">> \o to_string(o[Head(keys)])
         \o MembersToString(o, Tail(keys), FALSE)

to_string(v) ==
    IF v.t = "str" THEN Quoted(v.s)
    ELSE IF v.t = "obj" THEN <<"{">> \o MembersToString(v.o, KeyOrder, TRUE) \o <<"}">>
    ELSE IF v.t = "bool" THEN (IF v.b THEN <<"t", "r", "u", "e">>
                                      ELSE <<"f", "a", "l", "s", "e">>)
    ELSE <<"n", "u", "l", "l">>

\* stdin.write(json_str.as_bytes()) for each request written so far.
RECURSIVE WrittenBytes(_)
WrittenBytes(reqs) ==
    IF reqs = <<>> THEN <<>> ELSE to_string(Head(reqs).msg) \o WrittenBytes(Tail(reqs))

StdinBytes == WrittenBytes(apiStdin)

(***************************************************************************)
(* The bridge fed with replies of every variant on both channels: the       *)
(* listener child emits chat events, read results, channel lists and text   *)
(* that is not JSON; the API child answers with a chat event or with JSON   *)
(* of an unknown shape.  The owner keeps the Keybase value: Drop does not    *)
(* run.                                                                     *)
(***************************************************************************)
InboundListenerLines == {"chat_empty_ids", "batch", "channel_list", GarbageLine}

InboundApiLines == {"chat_ok", "unknown"}

InboundNext ==
    \/ LstCheck
    \/ \E line \in InboundListenerLines : LstRead(line)
    \/ \E delivered \in BOOLEAN : LstNotify(delivered)
    \/ LstSend
    \/ ApiCheck
    \/ ApiRecv
    \/ \E written \in BOOLEAN : ApiWrite(written)
    \/ \E line \in InboundApiLines : ApiRead(line)
    \/ ApiSend
    \/ \E msg \in RequestMsgs : CallerSend(msg)

InboundSpec == Init /\ [][InboundNext]_vars

(***************************************************************************)
(* The bridge with the Result of serde_json::to_string left open.  The     *)
(* requests built by create_list_channels_req and create_msg_req are       *)
(* Values that serialize; this specification adds the path the code takes  *)
(* when the call returns Err.                                               *)
(***************************************************************************)
\* serde_json::to_string(&new_msg.msg)? returns Err: From<serde_json::Error>
\* makes it ParseError, which start_api_loop matches with `Err(_) => continue`.
ApiSerializeFailed ==
    /\ apiPc = "write"
    /\ ApiReplyFailed
    /\ UNCHANGED <<is_running, incoming, incoming_rx_alive, outVars, lstVars,
                   apiMsg, apiStdin, apiLines, dropPc, nSend>>
    /\ UNCHANGED <<clsVars, tbVars, atClose>>

SerializeNext == Next \/ ApiSerializeFailed

SerializeSpec == Init /\ [][SerializeNext]_vars

(***************************************************************************)
(* The classifier on its own: to_keybase_msg applied to one Value drawn     *)
(* from the shapes the two children can send.                               *)
(***************************************************************************)
SeqsUpTo(S, n) == UNION {[1..k -> S] : k \in 0..n}

\* A JSON object from a set of <<key, value>> pairs with distinct keys.
ObjOf(pairs) ==
    JObj([k \in {p[1] : p \in pairs} |-> (CHOOSE p \in pairs : p[1] = k)[2]])

\* The msg object of a chat event.
MsgObj(sent_at, username, body, conv, ctype) ==
    JObj([sent_at |-> sent_at,
          sender |-> JObj([username |-> username]),
          content |-> JObj([type |-> ctype, text |-> JObj([body |-> body])]),
          conversation_id |-> conv])

SentAtValues ==
    {JNum("int", 1), JNum("int", 7), JNum("bigint", 2), JNum("hugeint", 3),
     JNum("float", 1), JStr(<<"1">>), Null}

UsernameValues == {JStr(S_bob), JStr(<<>>), JNum("int", 1), Null}

BodyValues == {JStr(S_hi), JStr(<<"o", " ", "k">>), JBool(TRUE), Null}

ConvValues == {JStr(S_C1), JStr(<<>>), JNum("int", 1), Null}

\* Values of the single-chat shape, every combination of the four fields.
ChatInputs ==
    {JObj([type |-> JStr(S_chat), msg |-> MsgObj(t, u, b, c, JStr(S_text))]) :
        t \in SentAtValues, u \in UsernameValues, b \in BodyValues, c \in ConvValues}

GoodMsg == MsgObj(JNum("int", 1), JStr(S_bob), JStr(S_hi), JStr(S_C1), JStr(S_text))

\* Values that carry any combination of the three shapes' marks.
ShapeInputs ==
    {ObjOf(ty \cup ms \cup rs) :
        ty \in {{}, {<<"type", JStr(S_chat)>>}, {<<"type", JStr(S_text)>>}},
        ms \in {{}, {<<"msg", GoodMsg>>},
                {<<"msg", MsgObj(JNum("int", 1), JStr(S_bob), JStr(S_hi),
                                 JStr(S_C1), JStr(<<"e", "d", "i", "t">>))>>}},
        rs \in {{}, {<<"foo", JStr(<<"b", "a", "r">>)>>},
                {<<"result", JStr(<<"o", "k">>)>>},
                {<<"result", JObj([messages |-> JArr(<<>>)])>>},
                {<<"result", JObj([conversations |-> JArr(<<>>)])>>},
                {<<"result", JObj([messages |-> JArr(<<JObj([msg |-> GoodMsg])>>),
                                   conversations |-> JArr(<<>>)])>>},
                {<<"result", JObj([messages |-> JStr(<<"n", "o">>),
                                   conversations |-> JArr(<<>>)])>>}}}

\* Elements of result.messages: two well-formed ones and malformed ones
\* (username missing, body mistyped, content type not text, not an object).
GoodBatchElems ==
    {JObj([msg |-> GoodMsg]),
     JObj([msg |-> MsgObj(JNum("int", 7), JStr(<<"a">>), JStr(<<"o", " ", "k">>),
                          JStr(<<"C", "2">>), JStr(S_text))])}

BadBatchElems ==
    {JObj([msg |-> MsgObj(JNum("int", 1), Null, JStr(S_hi), JStr(S_C1), JStr(S_text))]),
     JObj([msg |-> MsgObj(JNum("int", 1), JStr(S_bob), JNum("int", 1), JStr(S_C1),
                          JStr(<<"e", "d", "i", "t">>))]),
     JStr(S_hi)}

\* sent_at is an integer outside chrono's date range.
BigTsBatchElem ==
    JObj([msg |-> MsgObj(JNum("bigint", 2), JStr(S_bob), JStr(S_hi), JStr(S_C1),
                         JStr(S_text))])

BatchOf(elems) == JObj([result |-> JObj([messages |-> JArr(elems)])])

BatchInputs ==
    {BatchOf(elems) :
        elems \in SeqsUpTo(GoodBatchElems \cup BadBatchElems \cup {BigTsBatchElem}, MaxBatch)}

\* Elements of result.conversations: well-formed ones and ones with a field
\* missing or mistyped.
GoodConversations ==
    {Conversation(JStr(S_bob), JStr(S_C1), JBool(TRUE)),
     Conversation(JStr(<<"a">>), JStr(<<"C", "2">>), JBool(FALSE)),
     Conversation(JStr(<<>>), JStr(<<"C", "3">>), JBool(FALSE))}

BadConversations ==
    {JObj([channel |-> JObj([name |-> JStr(S_bob)]), unread |-> JBool(TRUE)]),
     Conversation(JNum("int", 1), JStr(S_C1), JBool(TRUE)),
     Conversation(JStr(S_bob), JStr(S_C1), JStr(<<"n", "o">>)),
     JObj([id |-> JStr(S_C1), unread |-> JBool(FALSE)])}

ChannelListOf(convs) == JObj([result |-> JObj([conversations |-> JArr(convs)])])

ChannelListInputs ==
    {ChannelListOf(convs) :
        convs \in SeqsUpTo(GoodConversations \cup BadConversations, MaxConversations)}

ClsInputs == ChatInputs \cup ShapeInputs \cup BatchInputs \cup ChannelListInputs

ClassifyInit ==
    /\ BridgeInit
    /\ TextBufferNew(1, 1)
    /\ clsIn \in ClsInputs
    /\ clsOut = NoResult

\* let keyb_msg = Keybase::to_keybase_msg(&parsed)
Classify ==
    /\ clsOut = NoResult
    /\ clsOut' = to_keybase_msg(clsIn)
    /\ UNCHANGED <<clsIn, bridgeVars, tbVars>>

ClassifyNext == Classify

ClassifySpec == ClassifyInit /\ [][ClassifyNext]_vars

(***************************************************************************)
(* TextBuffer (textbuffer.rs).  A line is a sequence of chars; String::len *)
(* counts bytes, chars() counts chars.                                     *)
(***************************************************************************)
Min(a, b) == IF a <= b THEN a ELSE b

Reverse(q) == [i \in 1..Len(q) |-> q[Len(q) - i + 1]]

\* Bytes of a char in UTF-8.
Utf8Len(c) == IF c = "é" THEN 2 ELSE 1

\* String::len()
RECURSIVE ByteLen(_)
ByteLen(line) == IF line = <<>> THEN 0 ELSE Utf8Len(Head(line)) + ByteLen(Tail(line))

\* The lines appended: empty, shorter than, as long as and longer than the
\* widths, one with more chunks than any height, and chars of two bytes.
TbLines ==
    {<<>>, <<"a">>, <<"é">>, <<"b", "c">>, <<"d", "é", "f">>,
     <<"g", "h", "i", "j", "k">>}

\* while self.raw_lines.len() > self.ysize { self.raw_lines.pop_front(); }
RECURSIVE PopFrontLoop(_)
PopFrontLoop(q) == IF Len(q) > ysize THEN PopFrontLoop(Tail(q)) ELSE q

\* Variant: the loop pops at the back.
append_pop_back(new_line) ==
    /\ Len(tbAppended) < MaxAppends
    /\ raw_lines' = SubSeq(Append(raw_lines, new_line), 1, Min(Len(raw_lines) + 1, ysize))
    /\ tbAppended' = Append(tbAppended, new_line)
    /\ tbOut' = NoResult
    /\ UNCHANGED <<xsize, ysize, bridgeVars, clsVars>>

append(new_line) ==
    /\ Len(tbAppended) < MaxAppends
    /\ raw_lines' = PopFrontLoop(Append(raw_lines, new_line))
    /\ tbAppended' = Append(tbAppended, new_line)
    /\ tbOut' = NoResult
    /\ UNCHANGED <<xsize, ysize, bridgeVars, clsVars>>

clear ==
    /\ raw_lines' = <<>>
    /\ tbAppended' = <<>>
    /\ tbOut' = NoResult
    /\ UNCHANGED <<xsize, ysize, bridgeVars, clsVars>>

\* The loop of split_into_sublines: it.by_ref().take(max_len) until empty.
RECURSIVE SplitLoop(_, _, _)
SplitLoop(it, max_len, ret) ==
    LET new_line == SubSeq(it, 1, Min(max_len, Len(it)))
    IN  IF new_line = <<>> THEN ret
        ELSE SplitLoop(SubSeq(it, Len(new_line) + 1, Len(it)), max_len,
                       Append(ret, new_line))

split_into_sublines(line, max_len) == SplitLoop(line, max_len, <<>>)

\* Variant: every chunk is taken, whatever room is left.
truncated_new_lines_all(new_lines, free) == Reverse(new_lines)

\* Variant: .rev() is missing, the first chunks are taken.
truncated_new_lines_first(new_lines, free) ==
    SubSeq(new_lines, 1, Min(free, Len(new_lines)))

\* new_lines.iter().rev().take(cmp::min(free, new_lines.len()))
truncated_new_lines(new_lines, free) ==
    SubSeq(Reverse(new_lines), 1, Min(free, Len(new_lines)))

\* for line in self.raw_lines.iter().rev(): i is the line the iterator is at.
RECURSIVE GetNewestLoop(_, _)
GetNewestLoop(i, formatted) ==
    IF i = 0 \/ Len(formatted) >= ysize THEN formatted
    ELSE LET line == raw_lines[i]
         IN  IF ByteLen(line) >= xsize
             THEN GetNewestLoop(i - 1,
                      formatted \o truncated_new_lines(split_into_sublines(line, xsize),
                                                       ysize - Len(formatted)))
             ELSE GetNewestLoop(i - 1, Append(formatted, line))

get_newest == Reverse(GetNewestLoop(Len(raw_lines), <<>>))

\* let lines = text_buf.get_newest();
CallGetNewest ==
    /\ tbOut = NoResult
    /\ tbOut' = Ok(get_newest)
    /\ UNCHANGED <<xsize, ysize, raw_lines, tbAppended, bridgeVars, clsVars>>

TextBufferInit ==
    /\ BridgeInit
    /\ ClsIdle
    /\ \E max_x_chars \in 1..TbMaxX, max_y_chars \in 0..TbMaxY :
           TextBufferNew(max_x_chars, max_y_chars)

TextBufferNext ==
    \/ \E new_line \in TbLines : append(new_line)
    \/ clear
    \/ CallGetNewest

TextBufferSpec == TextBufferInit /\ [][TextBufferNext]_vars

(***************************************************************************)
(* Scheduling.  Every thread that can take a step of its own eventually     *)
(* takes it.  Nothing obliges a child process to emit a line, the caller    *)
(* to send a request or the caller to drop the bridge, so LstRead, ApiRead, *)
(* CallerSend and DropSwap carry no fairness.                               *)
(***************************************************************************)
Fairness ==
    /\ WF_vars(LstCheck)
    /\ WF_vars(\E delivered \in BOOLEAN : LstNotify(delivered))
    /\ WF_vars(LstSend)
    /\ WF_vars(ApiCheck)
    /\ WF_vars(ApiRecv)
    /\ WF_vars(\E written \in BOOLEAN : ApiWrite(written))
    /\ WF_vars(ApiSend)
    /\ WF_vars(DropSendSentinel)
    /\ WF_vars(DropJoin)
    /\ WF_vars(DropListener)
    /\ WF_vars(DropFields)

FairSpec == Spec /\ Fairness

(***************************************************************************)
(* Helpers for the properties.                                              *)
(***************************************************************************)
IsPrefix(a, b) == Len(a) <= Len(b) /\ SubSeq(b, 1, Len(a)) = a

Last(q) == q[Len(q)]

\* The replies of the lines that parse and classify, in the lines' order.
RECURSIVE ClassifiedReplies(_)
ClassifiedReplies(lines) ==
    IF lines = <<>> THEN <<>>
    ELSE LET r == get_next_message(Head(lines))
         IN  (IF r.tag = "Ok" THEN <<r.val>> ELSE <<>>) \o ClassifiedReplies(Tail(lines))

EntriesFrom(src) == SelectSeq(incoming, LAMBDA e : e.src = src)

RepliesFrom(src) == [i \in 1..Len(EntriesFrom(src)) |-> EntriesFrom(src)[i].reply]

(***************************************************************************)
(* Properties.                                                              *)
(***************************************************************************)
\* The lines whose handling by the listener thread is complete: all lines
\* read, except the one whose reply the thread still holds.
LstSettledLines ==
    IF lstPc \in {"notify", "send"} THEN SubSeq(lstLines, 1, Len(lstLines) - 1)
    ELSE lstLines

\* C1: the entries the listener thread has put on the inbound queue are the
\* replies of exactly the lines it read that parse and classify, one entry
\* per such line, in the order the child emitted them; a line that fails to
\* parse or classify leaves no entry.  (Once incoming_rx is dropped there is
\* no queue left to put entries on; the entries then stay a prefix.)
C1_ListenerEnqueuesClassifiedInOrder ==
    /\ IsPrefix(RepliesFrom("listener"), ClassifiedReplies(LstSettledLines))
    /\ incoming_rx_alive => RepliesFrom("listener") = ClassifiedReplies(LstSettledLines)
    /\ \A i \in 1..Len(EntriesFrom("listener")) :
          LET e == EntriesFrom("listener")[i]
          IN  /\ e.line \in 1..Len(lstLines)
              /\ get_next_message(lstLines[e.line]) = Ok(e.reply)
              /\ \A j \in 1..(i - 1) : EntriesFrom("listener")[j].line < e.line

\* The scenario of the claim: valid chat, `not json`, valid chat gives two
\* ChatMsgReply entries.
C1_Witness ==
    /\ lstLines = <<"chat_ok", GarbageLine, "chat_ok">>
    /\ lstPc = "check"
    /\ Len(EntriesFrom("listener")) = 2
    /\ \A i \in 1..2 : EntriesFrom("listener")[i].reply.kind = "ChatMsgReply"

\* C2: the API thread is half-duplex.  A request is dequeued and written
\* only when every request written before has had exactly one line read for
\* it; while a reply is awaited exactly one request is outstanding; every
\* entry the API thread enqueues is the reply of the line read right after
\* the request it belongs to was written, and entries keep that order.
C2_HalfDuplex ==
    /\ apiPc \in {"check", "recv", "write", "send"} => Len(apiLines) = Len(apiStdin)
    /\ apiPc = "read" => Len(apiStdin) = Len(apiLines) + 1
    /\ Len(apiStdin) - Len(apiLines) \in {0, 1}
    /\ \A i \in 1..Len(EntriesFrom("api")) :
          LET e == EntriesFrom("api")[i]
          IN  /\ e.line \in 1..Len(apiLines)
              /\ e.line <= Len(apiStdin)
              /\ apiStdin[e.line].id = e.req
              /\ get_next_message(apiLines[e.line]) = Ok(e.reply)
              /\ \A j \in 1..(i - 1) : EntriesFrom("api")[j].line < e.line

\* Two request/reply cycles completed, the second reply enqueued.
C2_Witness ==
    /\ Len(apiStdin) = 2
    /\ Len(apiLines) = 2
    /\ \E i \in 1..Len(incoming) : incoming[i].src = "api" /\ incoming[i].line = 2

\* C3: the requests written to the API child are a prefix of the requests
\* the outgoing queue accepted (each at most once, in FIFO order), and the
\* request in hand is the next one; a reply that fails to parse or classify
\* does not make the thread write its request again.
C3_RequestsWrittenOnceInOrder ==
    /\ IsPrefix(apiStdin, outSent)
    /\ apiPc = "write" =>
          /\ Len(apiStdin) < Len(outSent)
          /\ apiReq = outSent[Len(apiStdin) + 1]
    /\ Len(outSent) - Len(outgoing) >= Len(apiStdin)

\* The reply to the first request did not parse, and the thread went on to
\* write the second request.
C3_Witness ==
    /\ Len(apiStdin) = 2
    /\ apiLines # <<>>
    /\ get_next_message(apiLines[1]).tag = "Err"
    /\ apiStdin[1] # apiStdin[2]

\* C4 (as claimed): no content of a line read terminates the thread that
\* read it; only a transport failure of the read does.
C4_NoLineContentTerminates ==
    [][/\ (lstPc = "read" /\ lstLines' # lstLines /\ Last(lstLines') # IoErrLine)
           => lstPc' # "panicked"
       /\ (apiPc = "read" /\ apiLines' # apiLines /\ Last(apiLines') # IoErrLine)
           => apiPc' # "panicked"]_vars

\* The listener thread's read of a line failed with an I/O error.
ListenerIoFailed == lstLines # <<>> /\ Last(lstLines) = IoErrLine

\* C5 (as claimed): after an I/O failure of the listener's read the whole
\* process is gone: neither the API thread nor the caller takes a step.
C5_ProcessTerminates ==
    [][ListenerIoFailed =>
          UNCHANGED <<is_running, incoming, incoming_rx_alive, outVars,
                      apiVars, dropPc, nSend>>]_vars

\* C5 (amended): an I/O failure of the listener's read terminates the
\* listener thread, and only it: the thread has panicked, holds no reply,
\* and from then on reads, notifies and enqueues nothing.
C5_ListenerThreadTerminates ==
    /\ [](ListenerIoFailed => lstPc = "panicked" /\ lstMsg = NoMsg)
    /\ [][ListenerIoFailed =>
             /\ UNCHANGED lstVars
             /\ Len(EntriesFrom("listener")') = Len(EntriesFrom("listener"))]_vars

\* The listener thread died on an I/O error, and the rest of the program
\* went on: a request got its reply enqueued and the bridge was closed.
C5_Witness ==
    /\ lstLines = <<IoErrLine>>
    /\ lstPc = "panicked"
    /\ EntriesFrom("api") # <<>>
    /\ dropPc = "returned"

EofOnlyLast(lines) == \A i \in 1..(Len(lines) - 1) : lines[i] # EofLine

\* C6 (as claimed): a thread that reads end-of-stream terminates and does
\* not read its stream again.
C6_StopsAtEndOfStream == EofOnlyLast(lstLines) /\ EofOnlyLast(apiLines)

\* C7: when drop() has returned, is_running is false and the API thread has
\* left its loop; a sentinel accepted by the queue is followed by the join.
C7_CloseLeavesApiStopped ==
    /\ dropPc = "returned" => ~is_running /\ Terminated(apiPc)
    /\ dropPc \in {"listener", "returned"} => ~is_running /\ Terminated(apiPc)
    /\ dropPc # "open" => ~is_running

\* drop() returned after the API thread took the sentinel and left its loop.
C7_Witness ==
    /\ dropPc = "returned"
    /\ apiPc = "done"
    /\ \E i \in 1..Len(outSent) : outSent[i].msg = empty_msg

\* C8: drop() does not wait for the listener thread: once the API thread
\* has left its loop, a drop() in progress returns, also in the executions
\* in which the listener thread stays blocked in read_line for ever.
C8_CloseDoesNotWaitForListener ==
    (dropPc # "open" /\ apiPc = "done") ~> (dropPc = "returned")

\* drop() has returned while the listener thread is still blocked in its
\* read.
C8_Witness ==
    /\ dropPc = "returned"
    /\ lstPc = "read"
    /\ apiPc = "done"

\* C9 (as claimed): the wait in drop() is bounded: a drop() that waits for
\* the API thread gets past the join.
C9_JoinIsBounded == (dropPc = "join") ~> (dropPc # "join")

\* C10 (as claimed): the sentinel is never written to the API child, no
\* reply is read for it and nothing is enqueued for it.
C10_SentinelIsNoOp ==
    /\ \A i \in 1..Len(apiStdin) : apiStdin[i].msg # empty_msg
    /\ apiPc \in {"write", "read", "send"} => apiReq.msg # empty_msg

(***************************************************************************)
(* C11: classification dispatches on the first matching rule, in the order *)
(* chat event with text content, result.messages array,                    *)
(* result.conversations array, and otherwise UnknownMessage; a value that  *)
(* matches several shapes is handled by the highest one only, and a value  *)
(* that matches none never yields a reply.                                 *)
(***************************************************************************)
C11_DispatchPriority ==
    clsOut # NoResult =>
        LET chat == /\ Index(clsIn, "type") = JStr(S_chat)
                    /\ Index(Index(Index(clsIn, "msg"), "content"), "type") = JStr(S_text)
            msgs == IsArray(Index(Index(clsIn, "result"), "messages"))
            convs == IsArray(Index(Index(clsIn, "result"), "conversations"))
            kindIs(k) == clsOut.tag = "Ok" => clsOut.val.kind = k
        IN  /\ chat => clsOut = create_chat_msg_reply(clsIn) /\ kindIs("ChatMsgReply")
            /\ ~chat /\ msgs =>
                   clsOut = create_chat_msg_list_reply(clsIn) /\ kindIs("ChatMsgListReply")
            /\ ~chat /\ ~msgs /\ convs =>
                   clsOut = create_channel_list_reply(clsIn) /\ kindIs("ChannelListReply")
            /\ ~chat /\ ~msgs /\ ~convs => clsOut = Err("UnknownMessage")

\* A value that matches all three shapes has been classified as a single chat
\* message.
C11_Witness ==
    /\ clsOut.tag = "Ok"
    /\ clsOut.val.kind = "ChatMsgReply"
    /\ IsArray(Index(Index(clsIn, "result"), "messages"))
    /\ IsArray(Index(Index(clsIn, "result"), "conversations"))

(***************************************************************************)
(* C12: for a value of the single-chat shape, classification succeeds      *)
(* exactly when sent_at is an integer and username, body and               *)
(* conversation_id are strings; the ChatMsg then carries that timestamp,   *)
(* the username as channel, the conversation id and the trimmed body;      *)
(* otherwise the result is ParseError and nothing is emitted.              *)
(***************************************************************************)
C12_ChatFieldsDecideSuccess ==
    (clsOut # NoResult /\ get_msg_type(clsIn) = "ChatMsg") =>
        LET msg == Index(clsIn, "msg")
            sent_at == Index(msg, "sent_at")
            username == Index(Index(msg, "sender"), "username")
            body == Index(Index(Index(msg, "content"), "text"), "body")
            conv == Index(msg, "conversation_id")
            wellFormed == /\ sent_at.t = "num" /\ sent_at.kind # "float"
                          /\ IsStr(username) /\ IsStr(body) /\ IsStr(conv)
        IN  IF wellFormed
            THEN clsOut = Ok([kind |-> "ChatMsgReply",
                              msg |-> ChatMsg(sent_at.n, username.s, conv.s, Trim(body.s))])
            ELSE clsOut = Err("ParseError")

(***************************************************************************)
(* C13: a batch whose result.messages holds well-formed and malformed chat *)
(* entries in any interleaving classifies as a ChatMsgListReply of exactly *)
(* the well-formed entries in their original order; malformed entries are  *)
(* skipped, and the reply is produced even when no entry is well-formed.   *)
(***************************************************************************)
C13_BatchKeepsWellFormedInOrder ==
    (clsOut # NoResult /\ get_msg_type(clsIn) = "ChatMsgList") =>
        LET SentAt(e) == Index(Index(e, "msg"), "sent_at")
            Username(e) == Index(Index(Index(e, "msg"), "sender"), "username")
            Body(e) == Index(Index(Index(Index(e, "msg"), "content"), "text"), "body")
            Conv(e) == Index(Index(e, "msg"), "conversation_id")
            WellFormed(e) ==
                /\ Index(Index(Index(e, "msg"), "content"), "type") = JStr(S_text)
                /\ SentAt(e).t = "num" /\ SentAt(e).kind # "float"
                /\ IsStr(Username(e)) /\ IsStr(Body(e)) /\ IsStr(Conv(e))
            kept == SelectSeq(Index(Index(clsIn, "result"), "messages").a, WellFormed)
        IN  clsOut = Ok([kind |-> "ChatMsgListReply",
                         msgs |-> [i \in 1..Len(kept) |->
                                      ChatMsg(SentAt(kept[i]).n, Username(kept[i]).s,
                                              Conv(kept[i]).s, Trim(Body(kept[i]).s))]])

(***************************************************************************)
(* C14: channel-list classification is all-or-nothing.  When every entry   *)
(* of result.conversations has a string channel name, a string id and a    *)
(* boolean unread, the result is one ChannelListReply with one Channel per *)
(* entry, in input order, with that name, id and flag; when any entry      *)
(* lacks or mistypes one of them the result is an error carrying no list.  *)
(***************************************************************************)
C14_ChannelListAllOrNothing ==
    (clsOut # NoResult /\ get_msg_type(clsIn) = "ChannelList") =>
        LET convs == Index(Index(clsIn, "result"), "conversations").a
            Name(c) == Index(Index(c, "channel"), "name")
            Good(c) == IsStr(Name(c)) /\ IsStr(Index(c, "id")) /\ IsBool(Index(c, "unread"))
        IN  IF \A i \in DOMAIN convs : Good(convs[i])
            THEN clsOut = Ok([kind |-> "ChannelListReply",
                              channels |-> [i \in DOMAIN convs |->
                                              [name |-> Name(convs[i]).s,
                                               id |-> Index(convs[i], "id").s,
                                               unread_msgs |-> Index(convs[i], "unread").b]]])
            ELSE clsOut = Err("ParseError")

\* A list whose first entry is complete and whose second entry has no id has
\* been classified, and the result is an error.
C14_Witness ==
    /\ get_msg_type(clsIn) = "ChannelList"
    /\ Len(Index(Index(clsIn, "result"), "conversations").a) = 2
    /\ Index(Index(clsIn, "result"), "conversations").a[1] \in GoodConversations
    /\ Index(Index(Index(clsIn, "result"), "conversations").a[2], "id") = Null
    /\ clsOut.tag = "Err"

(***************************************************************************)
(* C15: every ChatMsg on the inbound queue, sent alone or inside a         *)
(* ChatMsgListReply, has a non-empty conversation_id and a non-empty       *)
(* channel, whatever frames the children emit.                             *)
(***************************************************************************)
C15_InboundChatMsgsHaveIds ==
    \A i \in DOMAIN incoming :
        LET reply == incoming[i].reply
            HasIds(m) == m.channel # <<>> /\ m.conversation_id # <<>>
        IN  /\ reply.kind = "ChatMsgReply" => HasIds(reply.msg)
            /\ reply.kind = "ChatMsgListReply" =>
                   \A k \in DOMAIN reply.msgs : HasIds(reply.msgs[k])

(***************************************************************************)
(* C16: the listener thread runs the notification exactly once for each    *)
(* line it classified as a single ChatMsgReply, and before that reply is   *)
(* sent to the inbound queue; it runs none for a ChatMsgListReply, a       *)
(* ChannelListReply or a line that failed, and the API thread runs none.   *)
(* Every reply the listener classified is sent whatever the outcome of the *)
(* notification.                                                           *)
(***************************************************************************)
C16_NotifyOncePerChatBeforeEnqueue ==
    LET Reply(i) == get_next_message(lstLines[i])
        classified == {i \in DOMAIN lstLines : Reply(i).tag = "Ok"}
        chats == {i \in classified : Reply(i).val.kind = "ChatMsgReply"}
        inFlight == IF lstPc \in {"notify", "send"} THEN {Len(lstLines)} ELSE {}
        notified == IF lstPc = "notify" THEN chats \ {Len(lstLines)} ELSE chats
        sent == {k \in DOMAIN incoming : incoming[k].src = "listener"}
    IN  /\ Len(notifications) = Cardinality(notified)
        /\ \A k \in DOMAIN notifications :
               \E i \in notified : notifications[k] = Reply(i).val.msg.channel
        /\ \A k \in sent :
               incoming[k].reply.kind = "ChatMsgReply" => incoming[k].line \in notified
        /\ \A i \in classified \ inFlight :
               Cardinality({k \in sent : incoming[k].line = i
                                         /\ incoming[k].reply = Reply(i).val}) = 1

\* The API thread has enqueued a chat message and the listener a read result;
\* the listener has notified its single chat message and not yet sent it.
C16_Witness ==
    /\ \E k \in DOMAIN incoming :
           incoming[k].src = "api" /\ incoming[k].reply.kind = "ChatMsgReply"
    /\ \E k \in DOMAIN incoming :
           incoming[k].src = "listener" /\ incoming[k].reply.kind = "ChatMsgListReply"
    /\ GarbageLine \in {lstLines[i] : i \in DOMAIN lstLines}
    /\ lstPc = "send"
    /\ lstMsg.kind = "ChatMsgReply"
    /\ Len(notifications) = 1
    /\ \A k \in DOMAIN incoming : incoming[k].reply.kind = "ChatMsgReply" => incoming[k].src = "api"

(***************************************************************************)
(* C17: a request the API thread dequeued and could not serialize ends the *)
(* thread; the thread does not go on to the next request.  So while the    *)
(* thread runs, every request it has dequeued has been written to the      *)
(* child, except the one it is about to write.                             *)
(***************************************************************************)
C17_SerializeFailureIsFatal ==
    ~Terminated(apiPc) =>
        Len(outSent) - Len(outgoing) = Len(apiStdin) + (IF apiPc = "write" THEN 1 ELSE 0)

(***************************************************************************)
(* C18: a TextBuffer of height ysize stores min(number of appends since    *)
(* the last clear, ysize) raw lines, and they are the newest ones: append  *)
(* discards the oldest lines first.                                        *)
(***************************************************************************)
C18_KeepsNewestRawLines ==
    LET n == Min(Len(tbAppended), ysize)
    IN  /\ Len(raw_lines) = n
        /\ raw_lines = SubSeq(tbAppended, Len(tbAppended) - n + 1, Len(tbAppended))

\* More lines than the height were appended: the oldest are gone.
C18_Witness ==
    /\ ysize > 0
    /\ Len(tbAppended) > ysize
    /\ Len(raw_lines) = ysize
    /\ Head(raw_lines) # Head(tbAppended)

\* Display lines a line of n chars takes at width xsize: an empty line takes
\* one.
ChunkCount(n) == IF n = 0 THEN 1 ELSE (n + xsize - 1) \div xsize

RECURSIVE DisplayLineCount(_)
DisplayLineCount(lines) ==
    IF lines = <<>> THEN 0
    ELSE ChunkCount(Len(Head(lines))) + DisplayLineCount(Tail(lines))

(***************************************************************************)
(* C19: get_newest returns at most ysize display lines, each of at most    *)
(* xsize chars, for any appended lines; when the appended content wraps to *)
(* at least ysize display lines it returns exactly ysize.                  *)
(***************************************************************************)
C19_AtMostYsizeLinesOfXsizeChars ==
    tbOut # NoResult =>
        /\ Len(tbOut.val) <= ysize
        /\ \A i \in DOMAIN tbOut.val : Len(tbOut.val[i]) <= xsize
        /\ DisplayLineCount(tbAppended) >= ysize => Len(tbOut.val) = ysize

\* A line longer than the width is stored, the content wraps to more display
\* lines than the height, and get_newest has returned.
C19_Witness ==
    /\ tbOut # NoResult
    /\ ysize > 0
    /\ \E i \in DOMAIN raw_lines : Len(raw_lines[i]) > xsize * ysize
    /\ Len(tbOut.val) = ysize

\* The chunks of at most xsize chars of one line, in order.
WrapLine(line) ==
    IF line = <<>> THEN <<line>>
    ELSE [k \in 1..ChunkCount(Len(line)) |->
             SubSeq(line, (k - 1) * xsize + 1, Min(k * xsize, Len(line)))]

RECURSIVE WrapAll(_)
WrapAll(lines) ==
    IF lines = <<>> THEN <<>> ELSE WrapLine(Head(lines)) \o WrapAll(Tail(lines))

(***************************************************************************)
(* C20: get_newest returns the newest content oldest-first: the last       *)
(* min(ysize, total) entries of the stored raw lines wrapped, in append    *)
(* order, into consecutive chunks of at most xsize chars; of a long line   *)
(* that is only partly visible the last chunks are shown.                  *)
(***************************************************************************)
C20_NewestWrappedOldestFirst ==
    tbOut # NoResult =>
        LET wrapped == WrapAll(raw_lines)
            n == Min(ysize, Len(wrapped))
        IN  tbOut.val = SubSeq(wrapped, Len(wrapped) - n + 1, Len(wrapped))

\* Two lines are stored; the older one, of five chars, is only partly
\* visible: its last chunk is shown above the newer line.
C20_Witness ==
    /\ xsize = 2
    /\ ysize = 2
    /\ raw_lines = << <<"g", "h", "i", "j", "k">>, <<"a">> >>
    /\ tbOut = Ok(<< <<"k">>, <<"a">> >>)

(***************************************************************************)
(* C21: what the API thread has written to the child's stdin is one        *)
(* complete line per request: as many newlines as requests written, the    *)
(* last byte a newline, so consecutive requests are separated by newlines. *)
(***************************************************************************)
C21_OneLinePerRequest ==
    /\ Cardinality({i \in DOMAIN StdinBytes : StdinBytes[i] = "\n"}) = Len(apiStdin)
    /\ StdinBytes # <<>> => Last(StdinBytes) = "\n"

(***************************************************************************)
(* C22: a channel-list entry whose channel name is the empty string fails  *)
(* with ParseError and aborts the list; no ChannelListReply holds a        *)
(* Channel with an empty name.                                             *)
(***************************************************************************)
C22_EmptyChannelNameAborts ==
    (clsOut # NoResult /\ get_msg_type(clsIn) = "ChannelList") =>
        LET convs == Index(Index(clsIn, "result"), "conversations").a
        IN  /\ (\E i \in DOMAIN convs :
                   Index(Index(convs[i], "channel"), "name") = JStr(<<>>))
               => clsOut = Err("ParseError")
            /\ clsOut.tag = "Ok" =>
                   \A k \in DOMAIN clsOut.val.channels : clsOut.val.channels[k].name # <<>>

(***************************************************************************)
(* C23: the two threads send to the inbound queue without waiting for each *)
(* other: a thread that holds a classified reply can send it whatever the  *)
(* other thread is doing, so a reply and an unrelated listener event can   *)
(* be enqueued in either order; entries of the same stream keep the order  *)
(* of their lines.                                                         *)
(***************************************************************************)
C23_ChannelsEnqueueIndependently ==
    /\ lstPc = "send" => ENABLED LstSend
    /\ apiPc = "send" => ENABLED ApiSend
    /\ \A i, j \in DOMAIN incoming :
           (i < j /\ incoming[i].src = incoming[j].src) =>
               /\ incoming[i].line < incoming[j].line
               /\ incoming[i].req <= incoming[j].req

\* Both threads hold a classified reply at once and nothing is enqueued yet:
\* either send can come first.
C23_Witness ==
    /\ lstPc = "send"
    /\ apiPc = "send"
    /\ incoming_rx_alive
    /\ incoming = <<>>

(***************************************************************************)
(* C24: once Drop has set is_running to false, the API thread dequeues at  *)
(* most one further item from the outgoing queue and writes at most one    *)
(* further request, and the listener thread reads at most one further line *)
(* and enqueues at most one further reply, in every interleaving.          *)
(***************************************************************************)
C24_OvershootAtMostOneIteration ==
    ~is_running =>
        /\ Progress.lines <= atClose.lines + 1
        /\ Progress.enqueued <= atClose.enqueued + 1
        /\ Progress.written <= atClose.written + 1
        /\ outgoing_rx_alive => Progress.dequeued <= atClose.dequeued + 1

\* Both threads had passed the test of is_running when Drop swapped it: the
\* listener has read and enqueued one more line, the API thread has taken
\* and written one more request, and both have left their loops.
C24_Witness ==
    /\ ~is_running
    /\ lstPc = "done"
    /\ apiPc = "done"
    /\ Progress.lines = atClose.lines + 1
    /\ Progress.enqueued = atClose.enqueued + 1
    /\ Progress.written = atClose.written + 1

(***************************************************************************)
(* C25: drop() completes normally however it interleaves with an abnormal  *)
(* end of the API thread: whether the thread has panicked before the       *)
(* sentinel is sent or panics after the sentinel was sent, drop() does not *)
(* panic.                                                                  *)
(***************************************************************************)
C25_CloseSurvivesApiPanic ==
    (apiPc = "panicked" /\ dropPc # "open") => dropPc # "panicked"

====
